---- MODULE Spec2Model ----
(***************************************************************************)
(* Model of inbox/actions/backends/generic.py: the handlers that sync      *)
(* local datastore changes back to a generic IMAP provider.                *)
(*                                                                         *)
(* Every handler is a sequence of steps of one worker: a scoped datastore  *)
(* read, the acquisition of the account's writable connection, the calls   *)
(* on the connection, its release and (folder handlers) a scoped write.    *)
(* Any call on the connection may raise; the exception leaves the `with`   *)
(* block, which releases the connection, and reaches the caller.           *)
(***************************************************************************)
EXTENDS Integers, Sequences, FiniteSets, TLC

\* ------------------------------------------------------------- bounds
\* Handler invocations in one behaviour.
MaxInvocations == 2
\* Exceptions the remote side raises in one behaviour.
MaxFailures == 1

\* ------------------------------------------------------------- universe
Workers == {"w1", "w2"}
Accounts == {"a1", "a2"}
None == "none"

Messages == {"m1", "m2"}
MailFolders == {"Inbox", "Work", "Archive", "Drafts", "Sent"}
Destinations == {"Inbox", "Archive"}
Flagged == "\\Flagged"
Seen == "\\Seen"

Categories == {"c1"}
Providers == {"generic", "gmail", "eas"}
\* Folder names are sequences of path tokens; "/" is the local separator.
DisplayNames == {<<"Work">>, <<"Work", "/", "Invoices">>}
OldNames == {<<"Old">>, <<"Work">>}
\* folder_separator and folder_prefix of a connection.
SessionCfgs ==
    { [separator |-> ".", prefix |-> <<>>],
      [separator |-> ".", prefix |-> <<"INBOX", ".">>],
      [separator |-> "/", prefix |-> <<>>] }
NoRow == [exists |-> FALSE, display_name |-> <<>>]

\* Message-Id header values; the Message row m1 carries the newest.
Headers == {"h1", "h2"}
\* A Message row: whether it exists, its Message-Id header and its local
\* starred and unread state.
Row(e, h) == [exists |-> e, message_id_header |-> h, starred |-> FALSE, unread |-> TRUE]
MessageRows0 == [m \in Messages |-> Row(TRUE, IF m = "m1" THEN "h2" ELSE "h1")]
Draft == "\\Draft"

\* Rows of the ImapUid/Folder join the sync process may have written.
AllImapUids ==
    { [message_id |-> "m1", folder |-> "Inbox", msg_uid |-> 1],
      [message_id |-> "m1", folder |-> "Work", msg_uid |-> 3],
      [message_id |-> "m2", folder |-> "Inbox", msg_uid |-> 2] }

\* The remote mailbox of an account before any action ran.
Msg(u, h, fl) == [uid |-> u, hdr |-> h, flags |-> fl]

Mailbox0 ==
    [f \in MailFolders |->
        CASE f = "Inbox" -> {Msg(1, "m1", {}), Msg(2, "m2", {Seen})}
          [] f = "Work" -> {Msg(3, "m1", {})}
          [] OTHER -> {}]

UidNext0 ==
    [f \in MailFolders |->
        CASE f = "Inbox" -> 3
          [] f = "Work" -> 4
          [] OTHER -> 1]

VARIABLES
    pc,          \* pc[w]: the position of worker w in its handler
    inv,         \* inv[w]: the handler w runs and its arguments
    loc,         \* loc[w]: the handler's local variables
    txn,         \* txn[w]: w is inside a session_scope block
    holder,      \* holder[a]: the worker holding a's writable connection
    selected,    \* selected[a]: the folder a's connection has selected
    imapuids,    \* datastore: the ImapUid rows (joined with Folder)
    message_rows, \* datastore: message_rows[m], the Message row of m
    category,    \* datastore: category[c], the Category row of c
    provider,    \* datastore: provider[a], Account.provider
    session_cfg, \* session_cfg[a]: folder_separator and folder_prefix
    folder_roles, \* folder_roles[a]: the roles folder_names() reports
    remote_folders, \* remote: remote_folders[a], the folder paths
    mailbox,     \* remote: mailbox[a][f], the messages of folder f
    uidnext,     \* remote: uidnext[a][f], the next UID folder f assigns
    log,         \* log[w]: the connection calls of w's current invocation
    snap,        \* snap[w]: the remote state when w's invocation began
    hist,        \* hist[w]: w's previous invocation and how it ended
    nInv,        \* invocations so far
    nFail        \* exceptions raised so far

vars == <<pc, inv, loc, txn, holder, selected, imapuids, message_rows,
          category, provider, session_cfg, folder_roles, remote_folders,
          mailbox, uidnext, log, snap, hist, nInv, nFail>>

\* What no handler writes.
static == <<imapuids, message_rows, provider, session_cfg, folder_roles>>

\* ------------------------------------------------------------- records
NoMapping == [f \in {} |-> {}]

NoInv ==
    [op |-> None, account |-> None, message_id |-> None, value |-> FALSE,
     destination |-> None, category_id |-> None, old_name |-> <<>>,
     old_message_id_header |-> None, message_id_header |-> None,
     delete_multiple |-> FALSE]

NoLoc ==
    [uids_for_message |-> NoMapping, todo |-> {}, folder_name |-> None,
     flag_name |-> None, is_add |-> FALSE, account_provider |-> None,
     display_name |-> <<>>, new_display_name |-> <<>>,
     message_id_header |-> None, mimemsg |-> None, existing_new_draft |-> {},
     body |-> None, after |-> None, raised |-> None, result |-> None,
     wrote |-> FALSE]

\* One call on the connection: `folder` is the folder selected when it is
\* issued (for select_folder, the folder it selects).
Call(op, folder, uids, arg, path) ==
    [op |-> op, folder |-> folder, uids |-> uids, arg |-> arg, path |-> path]

Snapshot(a) ==
    [mailbox |-> mailbox[a], uidnext |-> uidnext[a],
     remote_folders |-> remote_folders[a], category |-> category]

NoSnap ==
    [mailbox |-> Mailbox0, uidnext |-> UidNext0, remote_folders |-> {},
     category |-> [c \in Categories |-> NoRow]]

NoHist ==
    [inv |-> NoInv, outcome |-> None, log |-> <<>>, raised |-> None,
     before |-> NoSnap, after |-> NoSnap]

\* ------------------------------------------------------------- helpers
\* Mutant: the rows are not filtered by message.
uids_by_folder_all(message_id, rows) ==
    [f \in {r.folder : r \in rows} |->
        {r.msg_uid : r \in {x \in rows : x.folder = f}}]

\* uids_by_folder: folder name -> the UIDs of the message in that folder.
uids_by_folder(message_id, rows) ==
    LET results == {r \in rows : r.message_id = message_id}
    IN  [f \in {r.folder : r \in results} |->
            {r.msg_uid : r \in {x \in results : x.folder = f}}]

\* Mutant: the empty-mapping check is dropped.
NoUids_never(mapping) == FALSE

\* `if not uids_for_message` of _set_flag and remote_move.
NoUids(mapping) == DOMAIN mapping = {}

\* The position of a `for folder_name, uids in ...` loop: its body, or the
\* end of the enclosing `with` block.
LoopPc(label, todo) == IF todo = {} THEN "exit" ELSE label

\* Mutant: the flag is toggled instead of set.
add_flags_toggle(msgs, uids, flag) ==
    {IF m.uid \in uids
     THEN [m EXCEPT !.flags = IF flag \in @ THEN @ \ {flag} ELSE @ \cup {flag}]
     ELSE m : m \in msgs}

\* conn.add_flags / conn.remove_flags on the selected folder.
add_flags(msgs, uids, flag) ==
    {IF m.uid \in uids THEN [m EXCEPT !.flags = @ \cup {flag}] ELSE m : m \in msgs}

remove_flags(msgs, uids, flag) ==
    {IF m.uid \in uids THEN [m EXCEPT !.flags = @ \ {flag}] ELSE m : m \in msgs}

\* conn.copy(uids, destination): the messages of the selected folder with
\* these UIDs get fresh UIDs in the destination, in UID order.
copied(msgs, uids, next) ==
    LET present == {m \in msgs : m.uid \in uids}
    IN  {Msg(next + Cardinality({n \in present : n.uid < m.uid}), m.hdr, m.flags) :
            m \in present}

\* crispin_client.delete_uids(uids) on the selected folder.
delete_uids(msgs, uids) == {m \in msgs : m.uid \notin uids}

\* Mutant: the source UIDs are deleted before they are copied.
MoveStepAfter_delete_first(step) ==
    CASE step = "mv_select" -> "mv_delete"
      [] step = "mv_delete" -> "mv_copy"
      [] step = "mv_copy" -> "mv_select"

\* The order of the three calls of remote_move's loop body.
MoveStepAfter(step) ==
    CASE step = "mv_select" -> "mv_copy"
      [] step = "mv_copy" -> "mv_delete"
      [] step = "mv_delete" -> "mv_select"

\* Mutant: the session_scope block stays open over the rest of the handler.
scope_closed_never(t, w) == t

\* The end of a `with session_scope(account_id) as db_session` block: the
\* transaction of w is committed (or rolled back) and closed.
scope_closed(t, w) == [t EXCEPT ![w] = FALSE]

\* set_remote_unread passes `not unread` as is_add of \Seen.
SeenIsAdd(unread) == ~unread

\* ------------------------------------------------------------- steps
\* A handler is entered by an idle worker, or one whose previous handler
\* returned or raised; what that handler did is kept in hist.
Begin(w, i) ==
    /\ pc[w] \in {"idle", "done", "error"}
    /\ nInv < MaxInvocations
    /\ nInv' = nInv + 1
    /\ inv' = [inv EXCEPT ![w] = i]
    /\ log' = [log EXCEPT ![w] = <<>>]
    /\ snap' = [snap EXCEPT ![w] = Snapshot(i.account)]
    /\ hist' = IF pc[w] = "idle" THEN hist
               ELSE [hist EXCEPT ![w] =
                        [inv |-> inv[w], outcome |-> IF pc[w] = "done" THEN "ok" ELSE "error",
                         log |-> log[w], raised |-> loc[w].raised,
                         before |-> snap[w], after |-> Snapshot(inv[w].account)]]

\* _set_flag, lines 60-61: the scoped read of the message's UIDs.
set_flag_read(w, i, flag_name, is_add) ==
    /\ Begin(w, i)
    /\ txn' = [txn EXCEPT ![w] = TRUE]
    /\ loc' = [loc EXCEPT ![w] =
                [NoLoc EXCEPT !.flag_name = flag_name, !.is_add = is_add,
                              !.uids_for_message = uids_by_folder(i.message_id, imapuids)]]
    /\ pc' = [pc EXCEPT ![w] = "sf_read"]
    /\ UNCHANGED <<holder, selected, static, category, remote_folders, mailbox,
                   uidnext, nFail>>

set_remote_starred(w, a) ==
    \E m \in Messages, starred \in BOOLEAN :
        set_flag_read(w, [NoInv EXCEPT !.op = "set_remote_starred", !.account = a,
                                       !.message_id = m, !.value = starred],
                      Flagged, starred)

set_remote_unread(w, a) ==
    \E m \in Messages, unread \in BOOLEAN :
        set_flag_read(w, [NoInv EXCEPT !.op = "set_remote_unread", !.account = a,
                                       !.message_id = m, !.value = unread],
                      Seen, SeenIsAdd(unread))

\* _set_flag, lines 62-64 (and remote_move, 86-88): the scope is left; with
\* no UIDs the handler warns and returns.
uids_resolved(w) ==
    /\ pc[w] \in {"sf_read", "mv_read"}
    /\ txn' = scope_closed(txn, w)
    /\ IF NoUids(loc[w].uids_for_message)
       THEN /\ pc' = [pc EXCEPT ![w] = "done"]
            /\ loc' = loc
       ELSE /\ pc' = [pc EXCEPT ![w] = "get"]
            /\ loc' = [loc EXCEPT ![w].todo = DOMAIN loc[w].uids_for_message,
                                  ![w].body = LoopPc(IF pc[w] = "sf_read" THEN "sf_select"
                                                     ELSE "mv_select",
                                                     DOMAIN loc[w].uids_for_message),
                                  ![w].after = "done"]
    /\ UNCHANGED <<inv, holder, selected, static, category, remote_folders, mailbox,
                   uidnext, log, snap, hist, nInv, nFail>>

\* Mutant: the pool hands the connection out while it is held.
ConnectionFree_always(h, a) == TRUE

\* The pool of an account holds one connection: get() returns once nobody
\* holds it.
ConnectionFree(h, a) == h[a] = None

\* Mutant: leaving the `with` block keeps the connection.
released_never(h, a) == h

\* The `with` block of writable_connection_pool(account_id).get() is left, by
\* its end, a return or an exception: the connection goes back to the pool.
released(h, a) == [h EXCEPT ![a] = None]

\* writable_connection_pool(account_id).get(): blocks until the account's
\* connection is free.
get_connection(w) ==
    /\ pc[w] = "get"
    /\ ConnectionFree(holder, inv[w].account)
    /\ holder' = [holder EXCEPT ![inv[w].account] = w]
    /\ log' = [log EXCEPT ![w] = Append(@, Call("get", None, {}, None, <<>>))]
    /\ pc' = [pc EXCEPT ![w] = loc[w].body]
    /\ UNCHANGED <<inv, loc, txn, selected, static, category, remote_folders,
                   mailbox, uidnext, snap, hist, nInv, nFail>>

\* The end of the `with ... as crispin_client` block.
exit_with(w) ==
    /\ pc[w] = "exit"
    /\ holder[inv[w].account] = w
    /\ holder' = released(holder, inv[w].account)
    /\ pc' = [pc EXCEPT ![w] = loc[w].after]
    /\ UNCHANGED <<inv, loc, txn, selected, static, category, remote_folders,
                   mailbox, uidnext, log, snap, hist, nInv, nFail>>

\* The positions whose next step is a call on the connection.
CallPcs ==
    {"sf_select", "sf_apply", "mv_select", "mv_copy", "mv_delete",
     "cf_create", "uf_rename", "df_delete",
     "sd_select", "sd_save", "ud_select", "ud_find", "ud_save", "ud_delete",
     "dd_delete", "ds_delete", "ss_select", "ss_create"}

\* A call on the connection raises (network, authentication, quota, ...):
\* nothing is applied, the `with` block is left and the handler raises.
raise_error(w) ==
    /\ pc[w] \in CallPcs
    /\ nFail < MaxFailures
    /\ nFail' = nFail + 1
    /\ holder' = released(holder, inv[w].account)
    /\ loc' = [loc EXCEPT ![w].raised = pc[w]]
    /\ pc' = [pc EXCEPT ![w] = "error"]
    /\ UNCHANGED <<inv, txn, selected, static, category, remote_folders, mailbox,
                   uidnext, log, snap, hist, nInv>>

\* _set_flag, lines 67-68: the next folder of the mapping is selected.
set_flag_select(w) ==
    /\ pc[w] = "sf_select"
    /\ \E f \in loc[w].todo :
        /\ selected' = [selected EXCEPT ![inv[w].account] = f]
        /\ loc' = [loc EXCEPT ![w].folder_name = f, ![w].todo = @ \ {f}]
        /\ log' = [log EXCEPT ![w] = Append(@, Call("select_folder", f, {}, None, <<>>))]
    /\ pc' = [pc EXCEPT ![w] = "sf_apply"]
    /\ UNCHANGED <<inv, txn, holder, static, category, remote_folders, mailbox,
                   uidnext, snap, hist, nInv, nFail>>

\* _set_flag, lines 69-72: the flag is added to or removed from the UIDs.
set_flag_apply(w) ==
    /\ pc[w] = "sf_apply"
    /\ LET a == inv[w].account
           f == selected[a]
           uids == loc[w].uids_for_message[loc[w].folder_name]
       IN  /\ mailbox' = [mailbox EXCEPT ![a][f] =
                            IF loc[w].is_add
                            THEN add_flags(@, uids, loc[w].flag_name)
                            ELSE remove_flags(@, uids, loc[w].flag_name)]
           /\ log' = [log EXCEPT ![w] =
                        Append(@, Call(IF loc[w].is_add THEN "add_flags" ELSE "remove_flags",
                                       f, uids, loc[w].flag_name, <<>>))]
    /\ pc' = [pc EXCEPT ![w] = LoopPc("sf_select", loc[w].todo)]
    /\ UNCHANGED <<inv, loc, txn, holder, selected, static, category, remote_folders,
                   uidnext, snap, hist, nInv, nFail>>

\* remote_move, lines 84-85: the scoped read of the message's UIDs.
remote_move(w, a) ==
    \E m \in Messages, destination \in Destinations :
        /\ Begin(w, [NoInv EXCEPT !.op = "remote_move", !.account = a,
                                  !.message_id = m, !.destination = destination])
        /\ txn' = [txn EXCEPT ![w] = TRUE]
        /\ loc' = [loc EXCEPT ![w] =
                    [NoLoc EXCEPT !.uids_for_message = uids_by_folder(m, imapuids)]]
        /\ pc' = [pc EXCEPT ![w] = "mv_read"]
        /\ UNCHANGED <<holder, selected, static, category, remote_folders, mailbox,
                       uidnext, nFail>>

\* remote_move, lines 91-92.
move_select(w) ==
    /\ pc[w] = "mv_select"
    /\ \E f \in loc[w].todo :
        /\ selected' = [selected EXCEPT ![inv[w].account] = f]
        /\ loc' = [loc EXCEPT ![w].folder_name = f, ![w].todo = @ \ {f}]
        /\ log' = [log EXCEPT ![w] = Append(@, Call("select_folder", f, {}, None, <<>>))]
    /\ pc' = [pc EXCEPT ![w] = MoveStepAfter("mv_select")]
    /\ UNCHANGED <<inv, txn, holder, static, category, remote_folders, mailbox,
                   uidnext, snap, hist, nInv, nFail>>

\* Where the loop of remote_move goes after a call of its body.
MoveNextPc(w, step) ==
    LET n == MoveStepAfter(step)
    IN  IF n = "mv_select" THEN LoopPc("mv_select", loc[w].todo) ELSE n

\* remote_move, line 93.
move_copy(w) ==
    /\ pc[w] = "mv_copy"
    /\ LET a == inv[w].account
           f == selected[a]
           d == inv[w].destination
           uids == loc[w].uids_for_message[loc[w].folder_name]
           new == copied(mailbox[a][f], uids, uidnext[a][d])
       IN  /\ mailbox' = [mailbox EXCEPT ![a][d] = @ \cup new]
           /\ uidnext' = [uidnext EXCEPT ![a][d] = @ + Cardinality(new)]
           /\ log' = [log EXCEPT ![w] = Append(@, Call("copy", f, uids, d, <<>>))]
    /\ pc' = [pc EXCEPT ![w] = MoveNextPc(w, "mv_copy")]
    /\ UNCHANGED <<inv, loc, txn, holder, selected, static, category, remote_folders,
                   snap, hist, nInv, nFail>>

\* Mutant: the move also drops the ImapUid rows of the UIDs it deleted.
move_delete_unmapping(w) ==
    /\ pc[w] = "mv_delete"
    /\ LET a == inv[w].account
           f == selected[a]
           uids == loc[w].uids_for_message[loc[w].folder_name]
       IN  /\ mailbox' = [mailbox EXCEPT ![a][f] = delete_uids(@, uids)]
           /\ imapuids' = {r \in imapuids :
                              ~(r.message_id = inv[w].message_id /\ r.folder = f)}
           /\ log' = [log EXCEPT ![w] = Append(@, Call("delete_uids", f, uids, None, <<>>))]
    /\ pc' = [pc EXCEPT ![w] = MoveNextPc(w, "mv_delete")]
    /\ UNCHANGED <<inv, loc, txn, holder, selected, message_rows, provider, session_cfg,
                   folder_roles, category, remote_folders, uidnext, snap, hist, nInv,
                   nFail>>

\* remote_move, line 94.
move_delete(w) ==
    /\ pc[w] = "mv_delete"
    /\ LET a == inv[w].account
           f == selected[a]
           uids == loc[w].uids_for_message[loc[w].folder_name]
       IN  /\ mailbox' = [mailbox EXCEPT ![a][f] = delete_uids(@, uids)]
           /\ log' = [log EXCEPT ![w] = Append(@, Call("delete_uids", f, uids, None, <<>>))]
    /\ pc' = [pc EXCEPT ![w] = MoveNextPc(w, "mv_delete")]
    /\ UNCHANGED <<inv, loc, txn, holder, selected, static, category, remote_folders,
                   uidnext, snap, hist, nInv, nFail>>

\* ------------------------------------------------------------- folder handlers
\* imap_folder_path(display_name, separator, prefix): every "/" becomes the
\* provider's separator and the provider's prefix is put in front.
imap_folder_path(display_name, separator, prefix) ==
    prefix \o [k \in 1..Len(display_name) |->
                  IF display_name[k] = "/" THEN separator ELSE display_name[k]]

\* Mutant: only gmail keeps its names.
TranslatesName_gmail_only(account_provider) == account_provider # "gmail"

\* `if account_provider not in ['gmail', 'eas']`.
TranslatesName(account_provider) == account_provider \notin {"gmail", "eas"}

\* Lines 107-114 (130-135, 152-156): the name the remote call is given.
RemoteName(w) ==
    IF TranslatesName(loc[w].account_provider)
    THEN imap_folder_path(loc[w].display_name,
                          session_cfg[inv[w].account].separator,
                          session_cfg[inv[w].account].prefix)
    ELSE loc[w].display_name

\* `if new_display_name != display_name` of the create and update handlers.
NeedsWriteBack(new_display_name, display_name) == new_display_name # display_name

\* The outcomes of conn.delete_folder that raise IMAP4.error: the server
\* answers NO, because the folder is missing or because it refuses.
DeleteFolderErrors == {"notfound", "refused"}

\* `except IMAP4.error: pass` of remote_delete_folder.
Swallowed(result) == result \in DeleteFolderErrors

\* Lines 98-101, 124-127, 145-148: the scoped read of the account's
\* provider and of the category's display name.
folder_read(w, i, label) ==
    /\ Begin(w, i)
    /\ txn' = [txn EXCEPT ![w] = TRUE]
    /\ loc' = [loc EXCEPT ![w] =
                [NoLoc EXCEPT !.account_provider = provider[i.account],
                              !.display_name = category[i.category_id].display_name]]
    /\ pc' = [pc EXCEPT ![w] = label]
    /\ UNCHANGED <<holder, selected, static, category, remote_folders, mailbox,
                   uidnext, nFail>>

remote_create_folder(w, a) ==
    \E c \in Categories :
        folder_read(w, [NoInv EXCEPT !.op = "remote_create_folder", !.account = a,
                                     !.category_id = c], "cf_read")

remote_update_folder(w, a) ==
    \E c \in Categories, old_name \in OldNames :
        folder_read(w, [NoInv EXCEPT !.op = "remote_update_folder", !.account = a,
                                     !.category_id = c, !.old_name = old_name],
                    "uf_read")

remote_delete_folder(w, a) ==
    \E c \in Categories :
        folder_read(w, [NoInv EXCEPT !.op = "remote_delete_folder", !.account = a,
                                     !.category_id = c], "df_read")

\* The scoped read ends. Without a Category row `category.display_name`
\* raises AttributeError (lines 101, 127, 148).
folder_resolved(w) ==
    /\ pc[w] \in {"cf_read", "uf_read", "df_read"}
    /\ txn' = scope_closed(txn, w)
    /\ IF ~category[inv[w].category_id].exists
       THEN /\ pc' = [pc EXCEPT ![w] = "error"]
            /\ loc' = [loc EXCEPT ![w].raised = "AttributeError"]
       ELSE /\ pc' = [pc EXCEPT ![w] = "get"]
            /\ loc' = [loc EXCEPT ![w].body =
                            CASE pc[w] = "cf_read" -> "cf_create"
                              [] pc[w] = "uf_read" -> "uf_rename"
                              [] pc[w] = "df_read" -> "df_delete"]
    /\ UNCHANGED <<inv, holder, selected, static, category, remote_folders, mailbox,
                   uidnext, log, snap, hist, nInv, nFail>>

\* A call on the connection that the server answers NO: the handler raises.
Refused(w, call) ==
    /\ holder' = released(holder, inv[w].account)
    /\ loc' = [loc EXCEPT ![w].raised = "IMAP4.error"]
    /\ log' = [log EXCEPT ![w] = Append(@, call)]
    /\ pc' = [pc EXCEPT ![w] = "error"]
    /\ UNCHANGED remote_folders

\* remote_create_folder, lines 107-115: conn.create_folder raises when the
\* folder exists.
create_folder(w) ==
    /\ pc[w] = "cf_create"
    /\ LET a == inv[w].account
           name == RemoteName(w)
           call == Call("create_folder", None, {}, None, name)
       IN  IF name \in remote_folders[a]
           THEN Refused(w, call)
           ELSE /\ remote_folders' = [remote_folders EXCEPT ![a] = @ \cup {name}]
                /\ loc' = [loc EXCEPT ![w].new_display_name = name,
                                      ![w].after = "cf_writeback"]
                /\ log' = [log EXCEPT ![w] = Append(@, call)]
                /\ pc' = [pc EXCEPT ![w] = "exit"]
                /\ UNCHANGED holder
    /\ UNCHANGED <<inv, txn, selected, static, category, mailbox, uidnext, snap,
                   hist, nInv, nFail>>

\* remote_update_folder, lines 130-136: conn.rename_folder raises when the
\* old folder is missing or the new one exists.
rename_folder(w) ==
    /\ pc[w] = "uf_rename"
    /\ LET a == inv[w].account
           name == RemoteName(w)
           old == inv[w].old_name
           call == [Call("rename_folder", None, {}, None, name) EXCEPT !.arg = old]
       IN  IF old \notin remote_folders[a] \/ name \in remote_folders[a]
           THEN Refused(w, call)
           ELSE /\ remote_folders' = [remote_folders EXCEPT ![a] = (@ \ {old}) \cup {name}]
                /\ loc' = [loc EXCEPT ![w].new_display_name = name,
                                      ![w].after = "uf_writeback"]
                /\ log' = [log EXCEPT ![w] = Append(@, call)]
                /\ pc' = [pc EXCEPT ![w] = "exit"]
                /\ UNCHANGED holder
    /\ UNCHANGED <<inv, txn, selected, static, category, mailbox, uidnext, snap,
                   hist, nInv, nFail>>

\* Lines 117-118 (138-139): the write-back scope is entered when the name
\* changed.
folder_writeback(w) ==
    /\ pc[w] \in {"cf_writeback", "uf_writeback"}
    /\ IF NeedsWriteBack(loc[w].new_display_name, loc[w].display_name)
       THEN /\ txn' = [txn EXCEPT ![w] = TRUE]
            /\ pc' = [pc EXCEPT ![w] = "fw_write"]
       ELSE /\ txn' = txn
            /\ pc' = [pc EXCEPT ![w] = "done"]
    /\ UNCHANGED <<inv, loc, holder, selected, static, category, remote_folders,
                   mailbox, uidnext, log, snap, hist, nInv, nFail>>

\* Lines 119-120 (140-141): the translated name is written onto the
\* category and the scope commits.
folder_written(w) ==
    /\ pc[w] = "fw_write"
    /\ txn' = scope_closed(txn, w)
    /\ IF category[inv[w].category_id].exists
       THEN /\ category' = [category EXCEPT
                              ![inv[w].category_id].display_name = loc[w].new_display_name]
            /\ loc' = [loc EXCEPT ![w].wrote = TRUE]
            /\ pc' = [pc EXCEPT ![w] = "done"]
       ELSE /\ category' = category
            /\ loc' = [loc EXCEPT ![w].raised = "AttributeError"]
            /\ pc' = [pc EXCEPT ![w] = "error"]
    /\ UNCHANGED <<inv, holder, selected, static, remote_folders, mailbox, uidnext,
                   log, snap, hist, nInv, nFail>>

\* remote_delete_folder, lines 151-162: the translated name is deleted; an
\* IMAP4.error of conn.delete_folder is passed over.
delete_folder(w) ==
    /\ pc[w] = "df_delete"
    /\ LET a == inv[w].account
           name == RemoteName(w)
       IN  /\ \E result \in {"ok"} \cup DeleteFolderErrors :
                /\ result = "ok" => name \in remote_folders[a]
                /\ result = "notfound" => name \notin remote_folders[a]
                /\ result = "refused" => name \in remote_folders[a] /\ nFail < MaxFailures
                /\ nFail' = IF result = "refused" THEN nFail + 1 ELSE nFail
                /\ remote_folders' = [remote_folders EXCEPT ![a] =
                                        IF result = "ok" THEN @ \ {name} ELSE @]
                /\ IF result = "ok" \/ Swallowed(result)
                   THEN /\ loc' = [loc EXCEPT ![w].result = result, ![w].after = "df_local"]
                        /\ pc' = [pc EXCEPT ![w] = "exit"]
                        /\ UNCHANGED holder
                   ELSE /\ loc' = [loc EXCEPT ![w].result = result,
                                              ![w].raised = "IMAP4.error"]
                        /\ pc' = [pc EXCEPT ![w] = "error"]
                        /\ holder' = released(holder, a)
           /\ log' = [log EXCEPT ![w] = Append(@, Call("delete_folder", None, {}, None, name))]
    /\ UNCHANGED <<inv, txn, selected, static, category, mailbox, uidnext, snap,
                   hist, nInv>>

\* remote_delete_folder, lines 164-165: the delete scope is entered.
delete_local(w) ==
    /\ pc[w] = "df_local"
    /\ txn' = [txn EXCEPT ![w] = TRUE]
    /\ pc' = [pc EXCEPT ![w] = "df_commit"]
    /\ UNCHANGED <<inv, loc, holder, selected, static, category, remote_folders,
                   mailbox, uidnext, log, snap, hist, nInv, nFail>>

\* remote_delete_folder, lines 166-167: the Category row is deleted and the
\* scope commits; db_session.delete(None) raises.
delete_committed(w) ==
    /\ pc[w] = "df_commit"
    /\ txn' = scope_closed(txn, w)
    /\ IF category[inv[w].category_id].exists
       THEN /\ category' = [category EXCEPT ![inv[w].category_id] = NoRow]
            /\ loc' = loc
            /\ pc' = [pc EXCEPT ![w] = "done"]
       ELSE /\ category' = category
            /\ loc' = [loc EXCEPT ![w].raised = "UnmappedInstanceError"]
            /\ pc' = [pc EXCEPT ![w] = "error"]
    /\ UNCHANGED <<inv, holder, selected, static, remote_folders, mailbox, uidnext,
                   log, snap, hist, nInv, nFail>>

\* ------------------------------------------------------------- draft and sent handlers
\* The folder that folder_names() gives a role.
RoleFolder(role) == IF role = "drafts" THEN "Drafts" ELSE "Sent"

\* The role a handler needs, by the position of its folder_names() check.
RoleAt(label) == IF label \in {"sd_check", "ud_check", "dd_check"} THEN "drafts" ELSE "sent"

\* `'drafts' not in crispin_client.folder_names()` (and 'sent').
RoleMissing(role, roles) == role \notin roles

\* Mutant: save_sent goes on without the Message row.
MessageMissing_never(row) == FALSE

\* `if message is None` of remote_save_sent.
MessageMissing(row) == ~row.exists

\* crispin_client.find_by_header('Message-Id', value) on the selected folder.
find_by_header(msgs, value) == {m.uid : m \in {x \in msgs : x.hdr = value}}

\* crispin_client.save_draft(mimemsg) / create_message(mimemsg): the message
\* is appended to the selected folder.
appended(msgs, next, mimemsg, flags) == msgs \cup {Msg(next, mimemsg, flags)}

\* The messages delete_draft(header) and delete_sent_message(header,
\* delete_multiple) remove: the first match, or every match.
FirstMatch(msgs, value) ==
    LET uids == find_by_header(msgs, value)
    IN  {u \in uids : \A v \in uids : u <= v}

deleted_by_header(msgs, value, delete_multiple) ==
    IF delete_multiple THEN find_by_header(msgs, value) ELSE FirstMatch(msgs, value)

\* Mutant: the draft is never appended.
ShouldSaveDraft_never(existing_new_draft) == FALSE

\* Mutant: the draft is appended whatever the search found.
ShouldSaveDraft_always(existing_new_draft) == TRUE

\* `if not existing_new_draft` of remote_update_draft.
ShouldSaveDraft(existing_new_draft) == existing_new_draft = {}

\* Lines 171-174, 187-193, 245-252: the scoped read of the Message row and
\* the build of the MIME message.
message_read(w, i, label) ==
    /\ Begin(w, i)
    /\ txn' = [txn EXCEPT ![w] = TRUE]
    /\ loc' = [loc EXCEPT ![w] =
                [NoLoc EXCEPT !.message_id_header = message_rows[i.message_id].message_id_header,
                              !.mimemsg = message_rows[i.message_id].message_id_header]]
    /\ pc' = [pc EXCEPT ![w] = label]
    /\ UNCHANGED <<holder, selected, static, category, remote_folders, mailbox,
                   uidnext, nFail>>

remote_save_draft(w, a) ==
    \E m \in {"m1"} :
        message_read(w, [NoInv EXCEPT !.op = "remote_save_draft", !.account = a,
                                      !.message_id = m], "sd_read")

remote_update_draft(w, a) ==
    \E m \in {"m1"}, old \in Headers :
        message_read(w, [NoInv EXCEPT !.op = "remote_update_draft", !.account = a,
                                      !.message_id = m, !.old_message_id_header = old],
                     "ud_read")

remote_save_sent(w, a) ==
    \E m \in {"m1"} :
        message_read(w, [NoInv EXCEPT !.op = "remote_save_sent", !.account = a,
                                      !.message_id = m], "ss_read")

\* The scoped read ends. Without a Message row, save_sent logs and returns
\* (248-251), while `message.message_id_header` (190) and
\* `message.attachments` (41, called from 174) raise AttributeError.
message_resolved(w) ==
    /\ pc[w] \in {"sd_read", "ud_read", "ss_read"}
    /\ txn' = scope_closed(txn, w)
    /\ LET row == message_rows[inv[w].message_id]
       IN  IF pc[w] = "ss_read" /\ MessageMissing(row)
           THEN /\ pc' = [pc EXCEPT ![w] = "done"]
                /\ loc' = loc
           ELSE IF ~row.exists
           THEN /\ pc' = [pc EXCEPT ![w] = "error"]
                /\ loc' = [loc EXCEPT ![w].raised = "AttributeError"]
           ELSE /\ pc' = [pc EXCEPT ![w] = "get"]
                /\ loc' = [loc EXCEPT ![w].after = "done",
                                      ![w].body =
                                        CASE pc[w] = "sd_read" -> "sd_check"
                                          [] pc[w] = "ud_read" -> "ud_check"
                                          [] pc[w] = "ss_read" -> "ss_check"]
    /\ UNCHANGED <<inv, holder, selected, static, category, remote_folders, mailbox,
                   uidnext, log, snap, hist, nInv, nFail>>

\* remote_delete_draft and remote_delete_sent read nothing: they start by
\* asking for the connection.
header_handler(w, i, label) ==
    /\ Begin(w, i)
    /\ loc' = [loc EXCEPT ![w] = [NoLoc EXCEPT !.body = label, !.after = "done"]]
    /\ pc' = [pc EXCEPT ![w] = "get"]
    /\ UNCHANGED <<txn, holder, selected, static, category, remote_folders, mailbox,
                   uidnext, nFail>>

remote_delete_draft(w, a) ==
    \E h \in Headers :
        header_handler(w, [NoInv EXCEPT !.op = "remote_delete_draft", !.account = a,
                                        !.message_id_header = h], "dd_check")

remote_delete_sent(w, a) ==
    \E h \in {"h2"}, delete_multiple \in BOOLEAN :
        header_handler(w, [NoInv EXCEPT !.op = "remote_delete_sent", !.account = a,
                                        !.message_id_header = h,
                                        !.delete_multiple = delete_multiple], "ds_check")

\* Lines 177-181, 200-204, 226-230, 236-240, 255-260: without the folder of
\* the role the handler logs and returns.
role_check(w) ==
    /\ pc[w] \in {"sd_check", "ud_check", "dd_check", "ds_check", "ss_check"}
    /\ log' = [log EXCEPT ![w] = Append(@, Call("folder_names", None, {}, None, <<>>))]
    /\ IF RoleMissing(RoleAt(pc[w]), folder_roles[inv[w].account])
       THEN pc' = [pc EXCEPT ![w] = "exit"]
       ELSE pc' = [pc EXCEPT ![w] =
                    CASE pc[w] = "sd_check" -> "sd_select"
                      [] pc[w] = "ud_check" -> "ud_select"
                      [] pc[w] = "dd_check" -> "dd_delete"
                      [] pc[w] = "ds_check" -> "ds_delete"
                      [] pc[w] = "ss_check" -> "ss_select"]
    /\ UNCHANGED <<inv, loc, txn, holder, selected, static, category, remote_folders,
                   mailbox, uidnext, snap, hist, nInv, nFail>>

\* Lines 181-182, 204-205, 260-261: the folder of the role is selected.
role_select(w) ==
    /\ pc[w] \in {"sd_select", "ud_select", "ss_select"}
    /\ LET f == RoleFolder(IF pc[w] = "ss_select" THEN "sent" ELSE "drafts")
       IN  /\ selected' = [selected EXCEPT ![inv[w].account] = f]
           /\ loc' = [loc EXCEPT ![w].folder_name = f]
           /\ log' = [log EXCEPT ![w] = Append(@, Call("select_folder", f, {}, None, <<>>))]
    /\ pc' = [pc EXCEPT ![w] =
                CASE pc[w] = "sd_select" -> "sd_save"
                  [] pc[w] = "ud_select" -> "ud_find"
                  [] pc[w] = "ss_select" -> "ss_create"]
    /\ UNCHANGED <<inv, txn, holder, static, category, remote_folders, mailbox,
                   uidnext, snap, hist, nInv, nFail>>

\* Lines 183, 209, 262: the MIME message is appended to the selected folder.
append_message(w) ==
    /\ pc[w] \in {"sd_save", "ud_save", "ss_create"}
    /\ LET a == inv[w].account
           f == selected[a]
       IN  /\ mailbox' = [mailbox EXCEPT ![a][f] =
                            appended(@, uidnext[a][f], loc[w].mimemsg,
                                     IF pc[w] = "ss_create" THEN {} ELSE {Draft})]
           /\ uidnext' = [uidnext EXCEPT ![a][f] = @ + 1]
           /\ log' = [log EXCEPT ![w] =
                        Append(@, Call(IF pc[w] = "ss_create" THEN "create_message"
                                       ELSE "save_draft",
                                       f, {uidnext[a][f]}, loc[w].mimemsg, <<>>))]
    /\ pc' = [pc EXCEPT ![w] = IF pc[w] = "ud_save" THEN "ud_delete" ELSE "exit"]
    /\ UNCHANGED <<inv, loc, txn, holder, selected, static, category, remote_folders,
                   snap, hist, nInv, nFail>>

\* remote_update_draft, lines 206-212: the draft with the new header is
\* searched for and appended only when it is not there.
find_new_draft(w) ==
    /\ pc[w] = "ud_find"
    /\ LET a == inv[w].account
           f == selected[a]
           found == find_by_header(mailbox[a][f], loc[w].message_id_header)
       IN  /\ loc' = [loc EXCEPT ![w].existing_new_draft = found]
           /\ log' = [log EXCEPT ![w] =
                        Append(@, Call("find_by_header", f, found,
                                       loc[w].message_id_header, <<>>))]
           /\ pc' = [pc EXCEPT ![w] = IF ShouldSaveDraft(found) THEN "ud_save"
                                      ELSE "ud_delete"]
    /\ UNCHANGED <<inv, txn, holder, selected, static, category, remote_folders,
                   mailbox, uidnext, snap, hist, nInv, nFail>>

\* Lines 216-217, 231, 241: the message matching the header is deleted from
\* the drafts (sent) folder.
delete_by_header(w) ==
    /\ pc[w] \in {"ud_delete", "dd_delete", "ds_delete"}
    /\ LET a == inv[w].account
           f == RoleFolder(IF pc[w] = "ds_delete" THEN "sent" ELSE "drafts")
           h == IF pc[w] = "ud_delete" THEN inv[w].old_message_id_header
                ELSE inv[w].message_id_header
           gone == deleted_by_header(mailbox[a][f], h,
                                     pc[w] = "ds_delete" /\ inv[w].delete_multiple)
       IN  /\ mailbox' = [mailbox EXCEPT ![a][f] = delete_uids(@, gone)]
           /\ selected' = [selected EXCEPT ![a] = f]
           /\ log' = [log EXCEPT ![w] =
                        Append(@, Call(IF pc[w] = "ds_delete" THEN "delete_sent_message"
                                       ELSE "delete_draft", f, gone, h, <<>>))]
    /\ pc' = [pc EXCEPT ![w] = "exit"]
    /\ UNCHANGED <<inv, loc, txn, holder, static, category, remote_folders, uidnext,
                   snap, hist, nInv, nFail>>

\* ------------------------------------------------------------- message actions
InitCommon ==
    /\ pc = [w \in Workers |-> "idle"]
    /\ inv = [w \in Workers |-> NoInv]
    /\ loc = [w \in Workers |-> NoLoc]
    /\ txn = [w \in Workers |-> FALSE]
    /\ holder = [a \in Accounts |-> None]
    /\ selected = [a \in Accounts |-> None]
    /\ log = [w \in Workers |-> <<>>]
    /\ snap = [w \in Workers |-> NoSnap]
    /\ hist = [w \in Workers |-> NoHist]
    /\ nInv = 0
    /\ nFail = 0

MsgInit ==
    /\ InitCommon
    /\ imapuids \in SUBSET AllImapUids
    /\ mailbox = [a \in Accounts |-> Mailbox0]
    /\ uidnext = [a \in Accounts |-> UidNext0]
    /\ message_rows = MessageRows0
    /\ category = [c \in Categories |-> NoRow]
    /\ provider = [a \in Accounts |-> "generic"]
    /\ session_cfg = [a \in Accounts |-> [separator |-> ".", prefix |-> <<>>]]
    /\ folder_roles = [a \in Accounts |-> {"drafts", "sent"}]
    /\ remote_folders = [a \in Accounts |-> {}]

MsgNext ==
    \E w \in {"w1"}, a \in {"a1"} :
        \/ set_remote_starred(w, a)
        \/ set_remote_unread(w, a)
        \/ remote_move(w, a)
        \/ uids_resolved(w)
        \/ get_connection(w)
        \/ set_flag_select(w)
        \/ set_flag_apply(w)
        \/ move_select(w)
        \/ move_copy(w)
        \/ move_delete(w)
        \/ exit_with(w)
        \/ raise_error(w)

\* The flag and move handlers, run one after another by one worker.
MsgSpec == MsgInit /\ [][MsgNext]_vars

\* ------------------------------------------------------------- claims on flags and moves
FlagOps == {"set_remote_starred", "set_remote_unread"}

Finished(w, ops) == pc[w] = "done" /\ inv[w].op \in ops

\* The previous invocation of w had the same arguments as the current one.
Repeated(w) == hist[w].outcome # None /\ hist[w].inv = inv[w]

\* The datastore holds no Remote-UID mapping of the message.
Unmapped(m) == ~ \E r \in imapuids : r.message_id = m

\* The (folder, UID) pairs of a mapping that exist in a mailbox.
Occurrences(mapping, mb) ==
    {<<f, u>> \in UNION {{f} \X mapping[f] : f \in DOMAIN mapping} :
        \E m \in mb[f] : m.uid = u}

\* The messages a folder received since a snapshot.
NewIn(a, f, before) == {m \in mailbox[a][f] : m.uid >= before.uidnext[f]}

\* C1: a flag or move handler invoked on a message with no Remote-UID
\* mapping never asks for the connection, issues no call on it, leaves the
\* remote mailbox as it was and does not raise.
C1_NoUidsNoCalls ==
    \A w \in Workers :
        (/\ inv[w].op \in FlagOps \cup {"remote_move"}
         /\ Unmapped(inv[w].message_id))
        => /\ pc[w] \in {"sf_read", "mv_read", "done"}
           /\ log[w] = <<>>
           /\ holder[inv[w].account] # w
           /\ mailbox[inv[w].account] = snap[w].mailbox

C1_Witness ==
    /\ Finished("w1", {"remote_move"})
    /\ Unmapped(inv["w1"].message_id)
    /\ hist["w1"].inv.op = "set_remote_starred"
    /\ hist["w1"].inv.message_id = inv["w1"].message_id

\* C4: a flag handler that returns after an identical invocation returned
\* leaves every folder of the remote mailbox as the first invocation left it.
C4_SetFlagIdempotent ==
    \A w \in Workers :
        (Finished(w, FlagOps) /\ Repeated(w) /\ hist[w].outcome = "ok")
        => mailbox[inv[w].account] = hist[w].after.mailbox

C4_Witness ==
    /\ Finished("w1", {"set_remote_starred"})
    /\ Repeated("w1")
    /\ hist["w1"].outcome = "ok"
    /\ inv["w1"].value
    /\ Len(log["w1"]) = 5
    /\ hist["w1"].after.mailbox # hist["w1"].before.mailbox

\* The calls select(f), copy(uids of f, dest), delete(uids of f) appear in
\* this order, one after the other, in the log of w.
MovedFolder(w, f, uids) ==
    \E k \in 1..(Len(log[w]) - 2) :
        /\ log[w][k] = Call("select_folder", f, {}, None, <<>>)
        /\ log[w][k + 1] = Call("copy", f, uids, inv[w].destination, <<>>)
        /\ log[w][k + 2] = Call("delete_uids", f, uids, None, <<>>)

\* C5: when a move returns, each folder of the mapping was selected, its
\* UIDs copied to the destination and then deleted; the destination holds
\* one new message per source occurrence and no source folder holds a
\* moved UID.
C5_MoveCopiesThenDeletes ==
    \A w \in Workers :
        Finished(w, {"remote_move"}) =>
            LET a == inv[w].account
                mapping == uids_by_folder(inv[w].message_id, imapuids)
                sources == Occurrences(mapping, snap[w].mailbox)
            IN  /\ \A f \in DOMAIN mapping : MovedFolder(w, f, mapping[f])
                /\ Len(log[w]) = IF DOMAIN mapping = {} THEN 0
                                 ELSE 1 + 3 * Cardinality(DOMAIN mapping)
                /\ Cardinality(NewIn(a, inv[w].destination, snap[w])) = Cardinality(sources)
                /\ \A m \in NewIn(a, inv[w].destination, snap[w]) :
                        m.hdr = inv[w].message_id
                /\ Occurrences(mapping, mailbox[a]) = {}

C5_Witness ==
    /\ Finished("w1", {"remote_move"})
    /\ DOMAIN uids_by_folder(inv["w1"].message_id, imapuids) = {"Inbox", "Work"}
    /\ log["w1"][2].folder = "Work"
    /\ Cardinality(NewIn("a1", inv["w1"].destination, snap["w1"])) = 2

\* C6: a move that returns on the retry of a failed identical move leaves in
\* the destination one new message per source occurrence, as one move
\* without failure does.
C6_RetriedMoveAsSingleMove ==
    \A w \in Workers :
        (Finished(w, {"remote_move"}) /\ Repeated(w) /\ hist[w].outcome = "error")
        => Cardinality(NewIn(inv[w].account, inv[w].destination, hist[w].before))
             = Cardinality(Occurrences(uids_by_folder(inv[w].message_id, imapuids),
                                       hist[w].before.mailbox))

\* ------------------------------------------------------------- folder actions
FolderInit ==
    /\ InitCommon
    /\ mailbox = [a \in Accounts |-> Mailbox0]
    /\ uidnext = [a \in Accounts |-> UidNext0]
    /\ imapuids = {}
    /\ message_rows = MessageRows0
    /\ \E d \in DisplayNames :
        category = [c \in Categories |-> [exists |-> TRUE, display_name |-> d]]
    /\ \E p \in Providers : provider = [a \in Accounts |-> p]
    /\ \E cfg \in SessionCfgs : session_cfg = [a \in Accounts |-> cfg]
    /\ folder_roles = [a \in Accounts |-> {"drafts", "sent"}]
    /\ remote_folders = [a \in Accounts |-> {<<"Old">>}]

FolderNext ==
    \E w \in {"w1"}, a \in {"a1"} :
        \/ remote_create_folder(w, a)
        \/ remote_update_folder(w, a)
        \/ remote_delete_folder(w, a)
        \/ folder_resolved(w)
        \/ get_connection(w)
        \/ create_folder(w)
        \/ rename_folder(w)
        \/ delete_folder(w)
        \/ exit_with(w)
        \/ folder_writeback(w)
        \/ folder_written(w)
        \/ delete_local(w)
        \/ delete_committed(w)
        \/ raise_error(w)

\* The folder handlers, run one after another by one worker.
FolderSpec == FolderInit /\ [][FolderNext]_vars

\* ------------------------------------------------------------- claims on folders
\* The invocation of w ended, by a return or by an exception.
Ended(w, ops) == pc[w] \in {"done", "error"} /\ inv[w].op \in ops

\* The paths the calls `op` of a log were given.
PathsOf(calls, op) == {calls[k].path : k \in {j \in 1..Len(calls) : calls[j].op = op}}

\* The name the spec's translation gives a display name: unchanged for the
\* flat-namespace providers, else the prefix followed by the name with the
\* provider's separator for every "/".
ExpectedName(d, p, cfg) ==
    IF p \in {"gmail", "eas"} THEN d
    ELSE [k \in 1..(Len(cfg.prefix) + Len(d)) |->
            IF k <= Len(cfg.prefix) THEN cfg.prefix[k]
            ELSE IF d[k - Len(cfg.prefix)] = "/" THEN cfg.separator
                 ELSE d[k - Len(cfg.prefix)]]

\* C2: a deleteFolder that follows an identical deleteFolder that returned,
\* and that no network failure interrupts, returns, and the Category row is
\* absent.
C2_DeleteFolderIdempotent ==
    \A w \in Workers :
        (/\ Ended(w, {"remote_delete_folder"})
         /\ Repeated(w) /\ hist[w].outcome = "ok"
         /\ loc[w].raised \notin CallPcs)
        => /\ pc[w] = "done"
           /\ ~category[inv[w].category_id].exists

\* C7: when createFolder returns, its one call on the connection created
\* the translated name, the category's display name is that name, and the
\* category was written exactly when the name changed (never for gmail and
\* eas, whose names are not translated).
C7_CreateFolderTranslates ==
    \A w \in Workers :
        Finished(w, {"remote_create_folder"}) =>
            LET a == inv[w].account
                c == inv[w].category_id
                d == snap[w].category[c].display_name
                t == ExpectedName(d, provider[a], session_cfg[a])
            IN  /\ log[w] = << Call("get", None, {}, None, <<>>),
                               Call("create_folder", None, {}, None, t) >>
                /\ t \in remote_folders[a]
                /\ category[c].display_name = t
                /\ loc[w].wrote <=> (t # d)
                /\ provider[a] \in {"gmail", "eas"} => (t = d /\ ~loc[w].wrote)

C7_Witness ==
    /\ Finished("w1", {"remote_create_folder"})
    /\ provider["a1"] = "generic"
    /\ snap["w1"].category["c1"].display_name = <<"Work", "/", "Invoices">>
    /\ category["c1"].display_name = <<"INBOX", ".", "Work", ".", "Invoices">>
    /\ loc["w1"].wrote

\* C8: on a generic provider, a createFolder or deleteFolder that follows a
\* createFolder that returned on the same category is given the path that
\* createFolder created, and a deleteFolder the server does not refuse
\* leaves that path absent.
C8_SamePathAddressed ==
    \A w \in Workers :
        (/\ Ended(w, {"remote_create_folder", "remote_delete_folder"})
         /\ hist[w].outcome = "ok"
         /\ hist[w].inv.op = "remote_create_folder"
         /\ hist[w].inv.category_id = inv[w].category_id
         /\ provider[inv[w].account] = "generic")
        => LET created == PathsOf(hist[w].log, "create_folder")
           IN  /\ PathsOf(log[w], "create_folder") \subseteq created
               /\ PathsOf(log[w], "delete_folder") \subseteq created
               /\ (pc[w] = "done" /\ inv[w].op = "remote_delete_folder"
                                  /\ loc[w].result # "refused")
                    => created \cap remote_folders[inv[w].account] = {}

\* C9: a deleteFolder whose remote delete the server refused for another
\* reason than a missing folder ends in an exception, and the Category row
\* still exists.
C9_OtherErrorsPropagate ==
    \A w \in Workers :
        (Ended(w, {"remote_delete_folder"}) /\ loc[w].result = "refused")
        => /\ pc[w] = "error"
           /\ category[inv[w].category_id].exists

\* ------------------------------------------------------------- draft and sent actions
\* The drafts folders a behaviour may start with: empty, one draft with the
\* old header, or two of them (a save_draft that was retried).
DraftFolders0 ==
    { {}, {Msg(1, "h1", {Draft})}, {Msg(1, "h1", {Draft}), Msg(2, "h1", {Draft})} }

DraftInit ==
    /\ InitCommon
    /\ \E drafts \in DraftFolders0 :
        /\ mailbox = [a \in Accounts |->
                        [Mailbox0 EXCEPT !["Drafts"] = drafts,
                                         !["Sent"] = {Msg(1, "h2", {}), Msg(2, "h2", {})}]]
        /\ uidnext = [a \in Accounts |->
                        [UidNext0 EXCEPT !["Drafts"] = Cardinality(drafts) + 1,
                                         !["Sent"] = 3]]
    /\ imapuids = {}
    /\ \E e \in BOOLEAN : message_rows = [MessageRows0 EXCEPT !["m1"].exists = e]
    /\ category = [c \in Categories |-> NoRow]
    /\ provider = [a \in Accounts |-> "generic"]
    /\ session_cfg = [a \in Accounts |-> [separator |-> ".", prefix |-> <<>>]]
    /\ \E roles \in SUBSET {"drafts", "sent"} : folder_roles = [a \in Accounts |-> roles]
    /\ remote_folders = [a \in Accounts |-> {}]

DraftNext ==
    \E w \in {"w1"}, a \in {"a1"} :
        \/ remote_save_draft(w, a)
        \/ remote_update_draft(w, a)
        \/ remote_delete_draft(w, a)
        \/ remote_delete_sent(w, a)
        \/ remote_save_sent(w, a)
        \/ message_resolved(w)
        \/ get_connection(w)
        \/ role_check(w)
        \/ role_select(w)
        \/ find_new_draft(w)
        \/ append_message(w)
        \/ delete_by_header(w)
        \/ exit_with(w)
        \/ raise_error(w)

\* The draft and sent handlers, run one after another by one worker.
DraftSpec == DraftInit /\ [][DraftNext]_vars

\* ------------------------------------------------------------- claims on drafts
\* The UIDs the calls `op` of a log appended or removed.
UidsOf(calls, op) ==
    UNION {calls[k].uids : k \in {j \in 1..Len(calls) : calls[j].op = op}}

\* The drafts of a snapshot that carry a header.
DraftsWith(before, h) == {m \in before.mailbox["Drafts"] : m.hdr = h}

\* C3 as stated: two updateDraft invocations with the same arguments, one
\* after the other, append at most one draft between them and remove at
\* most one.
C3_UpdateDraftTwice ==
    \A w \in Workers :
        (Ended(w, {"remote_update_draft"}) /\ Repeated(w))
        => /\ Cardinality(UidsOf(hist[w].log, "save_draft")
                          \cup UidsOf(log[w], "save_draft")) <= 1
           /\ Cardinality(UidsOf(hist[w].log, "delete_draft")
                          \cup UidsOf(log[w], "delete_draft")) <= 1

\* C3 as amended: when the old header is not the message's own header, the
\* two invocations append at most one draft between them, the second finds
\* the new draft and skips the append when the first returned, and each
\* invocation removes at most one draft, which carries the old header: at
\* most one between them when the folder held at most one such draft.
C3_UpdateDraftTwiceAmended ==
    \A w \in Workers :
        (/\ Ended(w, {"remote_update_draft"}) /\ Repeated(w)
         /\ inv[w].old_message_id_header # message_rows[inv[w].message_id].message_id_header)
        => LET old == inv[w].old_message_id_header
               first == UidsOf(hist[w].log, "delete_draft")
               second == UidsOf(log[w], "delete_draft")
           IN  /\ Cardinality(UidsOf(hist[w].log, "save_draft")
                              \cup UidsOf(log[w], "save_draft")) <= 1
               /\ (hist[w].outcome = "ok" /\ "drafts" \in folder_roles[inv[w].account]
                     /\ Len(log[w]) >= 4)
                    => /\ log[w][4].op = "find_by_header"
                       /\ log[w][4].uids # {}
                       /\ UidsOf(log[w], "save_draft") = {}
               /\ Cardinality(first) <= 1
               /\ Cardinality(second) <= 1
               /\ first \cup second \subseteq {m.uid : m \in DraftsWith(hist[w].before, old)}
               /\ Cardinality(DraftsWith(hist[w].before, old)) <= 1
                    => Cardinality(first \cup second) <= 1

C3_Witness ==
    /\ Finished("w1", {"remote_update_draft"})
    /\ Repeated("w1")
    /\ hist["w1"].outcome = "ok"
    /\ inv["w1"].old_message_id_header = "h1"
    /\ UidsOf(hist["w1"].log, "save_draft") # {}
    /\ UidsOf(hist["w1"].log, "delete_draft") # {}
    /\ UidsOf(log["w1"], "save_draft") = {}
    /\ UidsOf(log["w1"], "delete_draft") # {}

\* The calls a handler that finds no folder for its role must not issue.
FolderCalls ==
    {"select_folder", "save_draft", "create_message", "find_by_header",
     "delete_draft", "delete_sent_message"}

DraftOps == {"remote_save_draft", "remote_update_draft", "remote_delete_draft"}
SentOps == {"remote_delete_sent", "remote_save_sent"}

\* The account of w's handler has no folder for the role the handler needs.
NoRoleFolder(w) ==
    \/ inv[w].op \in DraftOps /\ "drafts" \notin folder_roles[inv[w].account]
    \/ inv[w].op \in SentOps /\ "sent" \notin folder_roles[inv[w].account]

\* C10: a draft handler on an account without a drafts folder, or a sent
\* handler on one without a sent folder, does not raise, issues no select,
\* append, search or delete, and leaves the remote mailbox unchanged.
C10_NoFolderNoOp ==
    \A w \in Workers :
        NoRoleFolder(w)
        => /\ pc[w] # "error"
           /\ \A k \in 1..Len(log[w]) : log[w][k].op \notin FolderCalls
           /\ mailbox[inv[w].account] = snap[w].mailbox

\* ------------------------------------------------------------- claims on missing rows
\* The Message row of w's handler is gone.
RowMissing(w) == ~message_rows[inv[w].message_id].exists

\* C11: saveSent on a message whose row no longer exists never raises,
\* never asks for the connection, issues no call and leaves the remote
\* mailbox as it was.
C11_SaveSentMissingRow ==
    \A w \in Workers :
        (inv[w].op = "remote_save_sent" /\ RowMissing(w))
        => /\ pc[w] \in {"ss_read", "done"}
           /\ log[w] = <<>>
           /\ holder[inv[w].account] # w
           /\ mailbox[inv[w].account] = snap[w].mailbox

C11_Witness ==
    /\ Finished("w1", {"remote_save_sent"})
    /\ RowMissing("w1")
    /\ "sent" \in folder_roles["a1"]

\* C12: saveDraft and updateDraft on a message whose row no longer exists do
\* not raise and append nothing to the drafts folder.
C12_DraftMissingRow ==
    \A w \in Workers :
        (inv[w].op \in {"remote_save_draft", "remote_update_draft"} /\ RowMissing(w))
        => /\ pc[w] # "error"
           /\ UidsOf(log[w], "save_draft") = {}


\* ------------------------------------------------------------- concurrent workers
\* Two workers dispatch handlers on two accounts; every step of one worker
\* may be followed by a step of the other.
ConcInit ==
    /\ InitCommon
    /\ mailbox = [a \in Accounts |->
                    [Mailbox0 EXCEPT !["Drafts"] = {Msg(1, "h1", {Draft})}]]
    /\ uidnext = [a \in Accounts |-> [UidNext0 EXCEPT !["Drafts"] = 2]]
    /\ imapuids = {r \in AllImapUids : r.message_id = "m1" /\ r.folder = "Inbox"}
    /\ message_rows = MessageRows0
    /\ category = [c \in Categories |->
                     [exists |-> TRUE, display_name |-> <<"Work", "/", "Invoices">>]]
    /\ provider = [a \in Accounts |-> "generic"]
    /\ session_cfg = [a \in Accounts |-> [separator |-> ".", prefix |-> <<>>]]
    /\ \E roles \in {{"drafts", "sent"}, {"sent"}} :
        folder_roles = [a \in Accounts |-> roles]
    /\ remote_folders = [a \in Accounts |-> {}]

ConcNext ==
    \E w \in Workers, a \in Accounts :
        \/ set_remote_starred(w, a)
        \/ remote_move(w, a)
        \/ remote_save_draft(w, a)
        \/ remote_update_draft(w, a)
        \/ remote_create_folder(w, a)
        \/ uids_resolved(w)
        \/ message_resolved(w)
        \/ folder_resolved(w)
        \/ get_connection(w)
        \/ set_flag_select(w)
        \/ set_flag_apply(w)
        \/ move_select(w)
        \/ move_copy(w)
        \/ move_delete(w)
        \/ role_check(w)
        \/ role_select(w)
        \/ find_new_draft(w)
        \/ append_message(w)
        \/ delete_by_header(w)
        \/ create_folder(w)
        \/ folder_writeback(w)
        \/ folder_written(w)
        \/ exit_with(w)
        \/ raise_error(w)

ConcSpec == ConcInit /\ [][ConcNext]_vars


\* ------------------------------------------------------------- claims on the connection
\* The positions inside a `with writable_connection_pool(...).get()` block.
WithPcs ==
    CallPcs \cup {"sd_check", "ud_check", "dd_check", "ds_check", "ss_check", "exit"}

InWith(w) == pc[w] \in WithPcs

\* C13: two workers are inside their connection blocks at the same time only
\* on different accounts, and a worker inside its block is the holder of its
\* account's connection, so the calls of two invocations on one account
\* never interleave.
C13_MutualExclusion ==
    /\ \A w, v \in Workers :
        (w # v /\ InWith(w) /\ InWith(v)) => inv[w].account # inv[v].account
    /\ \A w \in Workers : InWith(w) => holder[inv[w].account] = w

\* Both workers hold a connection, each of its own account, after calls of
\* both went out.
C13_Witness ==
    /\ InWith("w1") /\ InWith("w2")
    /\ inv["w1"].account = "a1" /\ inv["w2"].account = "a2"
    /\ Len(log["w1"]) > 1 /\ Len(log["w2"]) > 1

\* A worker waits for the connection another worker holds.
Blocked(w) ==
    /\ pc[w] = "get"
    /\ holder[inv[w].account] \in Workers \ {w}


\* A step of worker w inside a handler it has entered; exceptions of the
\* remote side are not among them.
Continue(w) ==
    \/ uids_resolved(w)
    \/ message_resolved(w)
    \/ folder_resolved(w)
    \/ get_connection(w)
    \/ set_flag_select(w)
    \/ set_flag_apply(w)
    \/ move_select(w)
    \/ move_copy(w)
    \/ move_delete(w)
    \/ role_check(w)
    \/ role_select(w)
    \/ find_new_draft(w)
    \/ append_message(w)
    \/ delete_by_header(w)
    \/ create_folder(w)
    \/ folder_writeback(w)
    \/ folder_written(w)
    \/ exit_with(w)

\* The concurrent workers, where a worker that can go on inside its handler
\* does go on: every call on the connection returns or raises.
FairSpec == ConcSpec /\ \A w \in Workers : WF_vars(Continue(w))

\* The handler of w has ended, by a return or by an exception.
Over(w) == pc[w] \in {"done", "error"}

\* w holds the connection of the account its handler works on.
Acquired(w) == inv[w].account \in Accounts /\ holder[inv[w].account] = w

\* C14: a connection is held only by a worker inside its connection block,
\* so a handler that ended (by return, by the early return without a drafts
\* folder, or by an exception) holds none; and a worker waiting for the
\* connection of its account gets it.
C14_ReleasedOnEveryExit ==
    /\ [](\A w \in Workers, a \in Accounts :
            holder[a] = w => (InWith(w) /\ inv[w].account = a))
    /\ \A w \in Workers : Blocked(w) ~> Acquired(w)

\* w1's handler raised out of its connection block and w2 now holds the
\* connection of the same account.
C14_Witness ==
    /\ pc["w1"] = "error" /\ loc["w1"].raised \in CallPcs
    /\ inv["w2"].account = inv["w1"].account
    /\ InWith("w2") /\ holder[inv["w2"].account] = "w2"

\* w1 returned early for want of a drafts folder, and w2 holds the connection.
C14_EarlyReturn ==
    /\ pc["w1"] = "done" /\ inv["w1"].op = "remote_save_draft"
    /\ Len(log["w1"]) = 2
    /\ inv["w2"].account = inv["w1"].account
    /\ holder[inv["w2"].account] = "w2"


\* ------------------------------------------------------------- claims on transactions
FolderOps == {"remote_create_folder", "remote_update_folder", "remote_delete_folder"}

\* C15: a worker that waits for or holds a connection has no session_scope
\* open; a scope open before the first call on the connection is the read
\* at the handler's start, and a scope open after calls were made is the
\* write-back of a folder handler, whose connection is released.
C15_NoTransactionAcrossNetwork ==
    \A w \in Workers :
        /\ (pc[w] = "get" \/ InWith(w)) => ~txn[w]
        /\ \A a \in Accounts : holder[a] = w => ~txn[w]
        /\ (txn[w] /\ log[w] = <<>>) => pc[w] \in {"sf_read", "mv_read", "cf_read", "uf_read",
                                                   "df_read", "sd_read", "ud_read", "ss_read"}
        /\ (txn[w] /\ log[w] # <<>>) => inv[w].op \in FolderOps

\* create_folder is in its write-back scope, after its call on the
\* connection, while the other worker is inside its connection block.
C15_Witness ==
    /\ pc["w1"] = "fw_write" /\ txn["w1"]
    /\ inv["w1"].op = "remote_create_folder"
    /\ Len(log["w1"]) = 2
    /\ InWith("w2") /\ inv["w2"].op = "remote_update_draft"


\* ------------------------------------------------------------- claims on addressing
\* The calls that carry a UID set.
UidCalls == {"add_flags", "remove_flags", "copy", "delete_uids"}

\* The UIDs the ImapUid rows give message m in folder f.
MappedUids(m, f) ==
    {r.msg_uid : r \in {x \in imapuids : x.message_id = m /\ x.folder = f}}

\* Call i of the log is made with folder f selected by the handler itself:
\* a select_folder(f) precedes it with no other select in between.
SelectedBefore(calls, i, f) ==
    \E j \in 1..(i - 1) :
        /\ calls[j].op = "select_folder" /\ calls[j].folder = f
        /\ \A k \in (j + 1)..(i - 1) : calls[k].op # "select_folder"

\* C16: every flag, copy and delete call of setFlag and move carries exactly
\* the UIDs the mapping has for one folder, and is issued while that folder
\* is the selected one, after the handler selected it.
C16_UidsUnderTheirFolder ==
    \A w \in Workers :
        inv[w].op \in FlagOps \cup {"remote_move"} =>
            \A i \in DOMAIN log[w] :
                log[w][i].op \in UidCalls =>
                    /\ log[w][i].uids # {}
                    /\ log[w][i].uids = MappedUids(inv[w].message_id, log[w][i].folder)
                    /\ SelectedBefore(log[w], i, log[w][i].folder)

\* A move of a message mapped in Inbox and Work has selected, copied and
\* deleted in both folders.
C16_Witness ==
    /\ Finished("w1", {"remote_move"})
    /\ {c.folder : c \in {log["w1"][i] : i \in DOMAIN log["w1"]}} \ {None} = {"Inbox", "Work"}
    /\ Len(log["w1"]) = 7


\* ------------------------------------------------------------- claims on the local datastore
\* Worker w takes the step, inside a flag or move handler.
MessageStep(w) ==
    /\ <<pc[w], inv[w], loc[w], log[w]>> # <<pc'[w], inv'[w], loc'[w], log'[w]>>
    /\ inv'[w].op \in FlagOps \cup {"remote_move"}

\* C17: no step of set_remote_starred, set_remote_unread or remote_move,
\* up to its return or its exception, changes a Message row (its starred
\* and unread state included) or the set of ImapUid rows.
C17_LocalStoreUntouched ==
    [][\A w \in Workers :
        MessageStep(w) => (message_rows' = message_rows /\ imapuids' = imapuids)]_vars

\* A flag handler returned after its calls and the move that followed it
\* raised at its delete, after its copy: the rows are as they were.
C17_Witness ==
    /\ pc["w1"] = "error" /\ inv["w1"].op = "remote_move"
    /\ loc["w1"].raised = "mv_delete"
    /\ hist["w1"].outcome = "ok" /\ hist["w1"].inv.op \in FlagOps
    /\ Len(hist["w1"].log) > 2
    /\ imapuids # {}
    /\ \A m \in Messages : ~message_rows[m].starred /\ message_rows[m].unread


\* ------------------------------------------------------------- claims on loss
\* The source occurrences of w's message that its move found when it began
\* and that are gone from their folders now.
Gone(w) ==
    LET mapping == uids_by_folder(inv[w].message_id, imapuids)
    IN  Occurrences(mapping, snap[w].mailbox) \ Occurrences(mapping, mailbox[inv[w].account])

\* The copies of w's message its move has put into the destination.
Copies(w) ==
    {m \in NewIn(inv[w].account, inv[w].destination, snap[w]) : m.hdr = inv[w].message_id}

\* C18: in a move, every delete_uids follows a copy of the same UIDs made
\* under the same selected folder, and at every point of the move, also
\* after an exception, each source occurrence that is gone from its folder
\* has its copy in the destination.
C18_MoveNeverLoses ==
    \A w \in Workers :
        inv[w].op = "remote_move" =>
            /\ \A i \in DOMAIN log[w] :
                log[w][i].op = "delete_uids" =>
                    /\ i > 1
                    /\ log[w][i - 1] = Call("copy", log[w][i].folder, log[w][i].uids,
                                            inv[w].destination, <<>>)
            /\ Cardinality(Copies(w)) >= Cardinality(Gone(w))
            /\ Gone(w) # {} => Copies(w) # {}

\* A move over two folders raised at its second copy: the first folder's
\* occurrence is gone and copied, the second is still in place.
C18_Witness ==
    /\ pc["w1"] = "error" /\ inv["w1"].op = "remote_move"
    /\ loc["w1"].raised = "mv_copy"
    /\ Cardinality(Gone("w1")) = 1
    /\ Cardinality(Copies("w1")) = 1
    /\ Len(log["w1"]) = 5


\* ------------------------------------------------------------- claims on draft versions
\* The header of the Message row of w's handler: the new draft's header.
NewHeader(w) == message_rows[inv[w].message_id].message_id_header

\* The drafts folder of w's account holds a draft with header h.
HoldsDraft(w, h) == \E m \in mailbox[inv[w].account]["Drafts"] : m.hdr = h

\* delete_draft is called only once the new draft was found or appended.
DeleteAfterNewDraft(w) ==
    \A i \in DOMAIN log[w] :
        log[w][i].op = "delete_draft" =>
            \E j \in 1..(i - 1) :
                \/ log[w][j].op = "save_draft" /\ log[w][j].arg = NewHeader(w)
                \/ log[w][j].op = "find_by_header" /\ log[w][j].uids # {}

\* C19 as stated: when the drafts folder held a draft with the old header as
\* updateDraft began, it holds a draft with the old or the new header at
\* every point of the call, and delete_draft comes after the new draft was
\* found or appended.
C19_DraftVersionKept ==
    \A w \in Workers :
        (inv[w].op = "remote_update_draft"
           /\ DraftsWith(snap[w], inv[w].old_message_id_header) # {})
        => /\ DeleteAfterNewDraft(w)
           /\ HoldsDraft(w, inv[w].old_message_id_header) \/ HoldsDraft(w, NewHeader(w))

\* C19 as amended: the same, for an old header that is not the message's
\* own header.
C19_DraftVersionKeptAmended ==
    \A w \in Workers :
        (inv[w].op = "remote_update_draft"
           /\ DraftsWith(snap[w], inv[w].old_message_id_header) # {}
           /\ inv[w].old_message_id_header # NewHeader(w))
        => /\ DeleteAfterNewDraft(w)
           /\ HoldsDraft(w, inv[w].old_message_id_header) \/ HoldsDraft(w, NewHeader(w))

\* updateDraft returned: it appended the new draft and then deleted the one
\* old draft, and the folder holds the new draft only.
C19_Witness ==
    /\ Finished("w1", {"remote_update_draft"})
    /\ inv["w1"].old_message_id_header = "h1"
    /\ DraftsWith(snap["w1"], "h1") # {}
    /\ UidsOf(log["w1"], "save_draft") # {}
    /\ UidsOf(log["w1"], "delete_draft") # {}
    /\ ~HoldsDraft("w1", "h1") /\ HoldsDraft("w1", "h2")


\* ------------------------------------------------------------- claims on concurrent updates
\* Both workers run updateDraft with the same arguments, each as its first
\* and only handler, so that no third invocation comes between them.
TwinUpdates ==
    /\ inv["w1"].op = "remote_update_draft"
    /\ inv["w2"] = inv["w1"]
    /\ hist["w1"] = NoHist /\ hist["w2"] = NoHist

\* The drafts the two workers have appended.
TwinAppends == UidsOf(log["w1"], "save_draft") \cup UidsOf(log["w2"], "save_draft")

\* C20 as stated: two updateDraft invocations with the same arguments on one
\* account append at most one draft between them, however they interleave.
C20_ConcurrentUpdateOnce ==
    TwinUpdates => Cardinality(TwinAppends) <= 1

\* C20 as amended: the same, for an old header that is not the message's
\* own header; the worker that did not append found the other's draft.
C20_ConcurrentUpdateOnceAmended ==
    (TwinUpdates /\ inv["w1"].old_message_id_header # NewHeader("w1"))
    => /\ Cardinality(TwinAppends) <= 1
       /\ \A w \in Workers :
            (UidsOf(log[w], "save_draft") = {} /\ pc[w] \in {"ud_delete", "exit", "done"}
               /\ "drafts" \in folder_roles[inv[w].account])
            => /\ log[w][4].op = "find_by_header"
               /\ log[w][4].uids = TwinAppends
               /\ TwinAppends # {}

\* Both were dispatched before either appended; w1 appended, w2 found
\* w1's draft and skipped its own append, and both returned.
C20_Witness ==
    /\ TwinUpdates
    /\ inv["w1"].old_message_id_header = "h1"
    /\ pc["w1"] = "done" /\ pc["w2"] = "done"
    /\ snap["w1"].mailbox["Drafts"] = snap["w2"].mailbox["Drafts"]
    /\ UidsOf(log["w1"], "save_draft") # {}
    /\ UidsOf(log["w2"], "save_draft") = {}
    /\ UidsOf(log["w2"], "find_by_header") = UidsOf(log["w1"], "save_draft")

====
